---- MODULE Spec2Model ----
(***************************************************************************)
(* Model of the forecasting dashboard (app.py, utils.py).                  *)
(*                                                                         *)
(* One browser session of the Streamlit script is modelled.  Every user    *)
(* interaction reruns the script top to bottom; st.session_state and the   *)
(* st.cache_data store survive the rerun, every other name of the script   *)
(* is rebuilt by it.  The "Generate Forecast" handler is cut at its four   *)
(* remote forecast calls, whose answers are the environment's choice.      *)
(***************************************************************************)
EXTENDS Integers, Sequences, FiniteSets

VARIABLES
    session_state,          \* st.session_state: the keys present and their values
    cache,                  \* st.cache_data store of get_data(): the cached results
    pc,                     \* position of the running script: "idle" between runs,
                            \* "end" when the run is over and its names still stand
    outcome,                \* what the last run showed: "none", "rendered" or an error
    db_query,               \* the last run issued the database query
    variable,               \* request-scoped names of the Generate Forecast handler
    fcast_horizon,
    selected_models,
    filtered_data,
    backtest_data,
    model_dict,
    backtest_df,            \* local of combine_backtest_forecast between its two calls
    forecast_original_df,
    forecast_normalized_df,
    forecasts_original,
    forecasts_normalized,
    calls                   \* forecast-service calls issued by the current run, in order

session == <<session_state, cache>>
vars == <<session_state, cache, pc, outcome, db_query, variable, fcast_horizon,
          selected_models, filtered_data, backtest_data, model_dict, backtest_df,
          forecast_original_df, forecast_normalized_df, forecasts_original,
          forecasts_normalized, calls>>

----------------------------------------------------------------------------
(* Bounds of the model *)

\* longest of the short histories held by the table
MaxLen == 3
\* largest horizon drawn from the low end of the slider
MaxH == 1

----------------------------------------------------------------------------
(* Program constants *)

variable_descriptions == <<"pce", "pop", "psavert", "uempmed", "unemploy">>
model_options == <<"xgboost", "arima", "random_forest">>
MinHorizon == 1
MaxHorizon == 90
DefaultHorizon == 12
ZoomWindow == 20
NaN == 0 - 1

Max(a, b) == IF a < b THEN b ELSE a

\* values the horizon slider is moved to: its low end, and its default
Horizons == {h \in (MinHorizon..MaxH) \cup {DefaultHorizon} : h <= MaxHorizon}

\* st.multiselect: the options picked, each once, in the order picked
Selections ==
    {s \in UNION {[1..n -> {model_options[i] : i \in DOMAIN model_options}] :
                     n \in 0..Len(model_options)} :
        \A i, j \in DOMAIN s : i # j => s[i] # s[j]}

----------------------------------------------------------------------------
(* The sales_economics table, as the database returns it *)

\* number of observations the table holds for each variable: one long
\* history and short ones of 0, 1, MaxLen - 1 and MaxLen observations
HistoryLen(v) ==
    CASE v = "pop" -> 100
      [] v = "pce" -> 0
      [] v = "psavert" -> 1
      [] v = "uempmed" -> MaxLen - 1
      [] OTHER -> MaxLen

VarIndex(v) == CHOOSE i \in DOMAIN variable_descriptions : variable_descriptions[i] = v

\* a date as the database driver hands it over, before pd.to_datetime
RawDate(d) == <<"raw", d>>

Observation(v, d) ==
    [variable |-> v,
     date |-> RawDate(d),
     value |-> 10 * VarIndex(v) + d,
     value01 |-> IF HistoryLen(v) <= 1 THEN 0 ELSE ((d - 1) * 100) \div (HistoryLen(v) - 1)]

RECURSIVE RowsOf(_, _)
RowsOf(i, d) ==
    IF i > Len(variable_descriptions) THEN <<>>
    ELSE (IF d <= HistoryLen(variable_descriptions[i])
          THEN <<Observation(variable_descriptions[i], d)>> ELSE <<>>)
         \o RowsOf(i + 1, d)

\* rows ordered by date, the variables interleaved (long format)
RECURSIVE TableFrom(_)
TableFrom(d) ==
    IF \A i \in DOMAIN variable_descriptions : HistoryLen(variable_descriptions[i]) < d
    THEN <<>>
    ELSE RowsOf(1, d) \o TableFrom(d + 1)

Table == TableFrom(1)

----------------------------------------------------------------------------
(* utils.py *)

to_datetime(raw) == raw[2]

\* what the remote service may answer to one call
Kinds == {"ok", "same", "zero_based", "empty", "raise"}

\* api.th2forecast_api: the rows of the service's answer, fcast_horizon rows
\* per model, grouped by model.  "ok" dates them after the history given,
\* "same" dates them from 1 whatever the history, "zero_based" numbers the
\* models from 0, "empty" answers with no row.
th2forecast_api(kind, actuals, horizon, models_list) ==
    IF kind = "empty" THEN <<>>
    ELSE [k \in 1..(Len(models_list) * horizon) |->
            LET m == ((k - 1) \div horizon) + 1
                d == ((k - 1) % horizon) + 1
            IN [index |-> RawDate((IF kind = "same" THEN 0 ELSE Len(actuals)) + d),
                dotvalue |-> Len(actuals) + m,
                model_id |-> IF kind = "zero_based" THEN m - 1 ELSE m]]

\* rename of '.index' and '.value', and the parse of the dates
NormalizeRow(r, target_var) ==
    IF target_var = "value"
    THEN [date |-> to_datetime(r.index), value |-> r.dotvalue, model_id |-> r.model_id]
    ELSE [date |-> to_datetime(r.index), value01 |-> r.dotvalue, model_id |-> r.model_id]

\* get_api_forecasts: the exception raised, or the normalized table
get_api_forecasts(kind, actuals, horizon, target_var, models_list) ==
    LET forecasts == th2forecast_api(kind, actuals, horizon, models_list) IN
    IF kind = "raise" THEN [raised |-> "ForecastServiceError", result |-> <<>>]
    ELSE IF forecasts = <<>> THEN [raised |-> "KeyError", result |-> <<>>]
    ELSE [raised |-> "",
          result |-> [i \in DOMAIN forecasts |-> NormalizeRow(forecasts[i], target_var)]]

\* concat with its two frames swapped
concat_swapped(first, second) == second \o first

\* concat followed by drop_duplicates(subset=['date', '.model_id'])
concat_dedup(first, second) ==
    first \o SelectSeq(second, LAMBDA r :
                 ~\E i \in DOMAIN first :
                     first[i].date = r.date /\ first[i].model_id = r.model_id)

\* pd.concat([backtest_df, forecast_df])
concat(first, second) == first \o second

generate_model_dict(selected) == [index \in 1..Len(selected) |-> selected[index]]

\* the identifier a dict comprehension keeps for a name: the last one written
IdOf(md, name) == CHOOSE id \in DOMAIN md :
                      md[id] = name /\ \A other \in DOMAIN md : md[other] = name => other <= id

\* the keys a groupby on '.model_id' would give: only the models with rows
SplitKeysWithRows(forecast_df, md) ==
    {md[id] : id \in {i \in DOMAIN md :
                        \E k \in DOMAIN forecast_df : forecast_df[k].model_id = i}}

\* the keys of the dict comprehension: one per identifier of model_dict
SplitKeys(forecast_df, md) == {md[id] : id \in DOMAIN md}

\* the comparison of the mask written >= instead of ==
split_forecasts_at_least(forecast_df, md) ==
    [name \in SplitKeys(forecast_df, md) |->
        SelectSeq(forecast_df, LAMBDA r : r.model_id >= IdOf(md, name))]

split_forecasts_by_model(forecast_df, md) ==
    [name \in SplitKeys(forecast_df, md) |->
        SelectSeq(forecast_df, LAMBDA r : r.model_id = IdOf(md, name))]

----------------------------------------------------------------------------
(* app.py *)

\* data[data['variable'] == variable], then the date column parsed (a copy)
FilterVariable(data, v) ==
    LET rows == SelectSeq(data, LAMBDA r : r.variable = v)
    IN [i \in DOMAIN rows |-> [rows[i] EXCEPT !.date = to_datetime(rows[i].date)]]

\* the slice taken one row too long
BacktestOffByOne(rows, horizon) == SubSeq(rows, 1, Max(Len(rows) - horizon + 1, 0))

\* filtered_data.iloc[:-fcast_horizon]
Backtest(rows, horizon) == SubSeq(rows, 1, Max(Len(rows) - horizon, 0))

\* the handler without its check of the selection
NeverNoModel(selected) == FALSE

\* if not selected_models
NoModelSelected(selected) == selected = <<>>

\* filtered_data['value'].min() and .max(): NaN on an empty column
MinValue(rows) ==
    IF rows = <<>> THEN NaN
    ELSE CHOOSE x \in {rows[i].value : i \in DOMAIN rows} :
             \A y \in {rows[i].value : i \in DOMAIN rows} : x <= y
MaxValue(rows) ==
    IF rows = <<>> THEN NaN
    ELSE CHOOSE x \in {rows[i].value : i \in DOMAIN rows} :
             \A y \in {rows[i].value : i \in DOMAIN rows} : y <= x

\* forecast_normalized_df['value'] = value01 * (max - min) + min
Rescale(df, rows) ==
    LET min_value == MinValue(rows)
        max_value == MaxValue(rows)
    IN [i \in DOMAIN df |->
        [date |-> df[i].date, value01 |-> df[i].value01, model_id |-> df[i].model_id,
         value |-> IF rows = <<>> THEN NaN
                   ELSE df[i].value01 * (max_value - min_value) + min_value]]

\* filtered_data['date'].iloc[-20] raises when fewer rows are there
ZoomRaises(rows) == Len(rows) < ZoomWindow

\* a load that swallows the failure and goes on with an empty frame
SessionAfterLoadSwallowed(s, ok, df) ==
    IF ok THEN [data_loaded |-> TRUE, data |-> df] ELSE [data_loaded |-> TRUE, data |-> <<>>]

\* session_state after lines 48-50, given whether get_data() returned
SessionAfterLoad(s, ok, df) ==
    IF ok THEN [data_loaded |-> TRUE, data |-> df] ELSE s

\* a failure path that also throws the loaded dataset away
HaltDropsSession(exc) ==
    /\ pc' = "end"
    /\ outcome' = exc
    /\ session_state' = [data_loaded |-> FALSE]
    /\ UNCHANGED cache

\* an exception that no handler catches: the run halts, the session stays
Halt(exc) ==
    /\ pc' = "end"
    /\ outcome' = exc
    /\ UNCHANGED session

NoRequest ==
    /\ variable' = ""
    /\ fcast_horizon' = 0
    /\ selected_models' = <<>>
    /\ filtered_data' = <<>>
    /\ backtest_data' = <<>>
    /\ model_dict' = <<>>
    /\ backtest_df' = <<>>
    /\ forecast_original_df' = <<>>
    /\ forecast_normalized_df' = <<>>
    /\ forecasts_original' = <<>>
    /\ forecasts_normalized' = <<>>
    /\ calls' = <<>>

Init ==
    /\ session_state = [data_loaded |-> FALSE]
    /\ cache = {}
    /\ pc = "idle"
    /\ outcome = "none"
    /\ db_query = FALSE
    /\ variable = ""
    /\ fcast_horizon = 0
    /\ selected_models = <<>>
    /\ filtered_data = <<>>
    /\ backtest_data = <<>>
    /\ model_dict = <<>>
    /\ backtest_df = <<>>
    /\ forecast_original_df = <<>>
    /\ forecast_normalized_df = <<>>
    /\ forecasts_original = <<>>
    /\ forecasts_normalized = <<>>
    /\ calls = <<>>

\* a new browser session: session_state starts over, the cache store stays
NewSession ==
    /\ pc = "idle"
    /\ session_state' = [data_loaded |-> FALSE]
    /\ UNCHANGED cache
    /\ pc' = "idle"
    /\ outcome' = "none"
    /\ db_query' = FALSE
    /\ NoRequest

\* a rerun with no button pressed (a widget was changed)
Rerun ==
    /\ pc = "idle"
    /\ pc' = "idle"
    /\ outcome' = "none"
    /\ db_query' = FALSE
    /\ NoRequest
    /\ UNCHANGED session

\* "Load Data from Database" pressed
LoadClick ==
    /\ pc = "idle"
    /\ pc' = "idle"
    /\ NoRequest
    /\ IF session_state.data_loaded
       THEN /\ outcome' = "none"
            /\ db_query' = FALSE
            /\ UNCHANGED session
       ELSE IF cache # {}
       THEN /\ session_state' = SessionAfterLoad(session_state, TRUE, CHOOSE df \in cache : TRUE)
            /\ outcome' = "none"
            /\ db_query' = FALSE
            /\ UNCHANGED cache
       ELSE \E ok \in BOOLEAN :
            /\ db_query' = TRUE
            /\ session_state' = SessionAfterLoad(session_state, ok, Table)
            /\ cache' = IF ok THEN {Table} ELSE cache
            /\ outcome' = IF ok THEN "none" ELSE "ConnectionError"

\* "Generate Forecast" pressed: lines 63-74
GenerateClick ==
    /\ pc = "idle"
    /\ session_state.data_loaded
    /\ \E v \in {variable_descriptions[i] : i \in DOMAIN variable_descriptions},
          h \in Horizons, sel \in Selections :
        /\ variable' = v
        /\ fcast_horizon' = h
        /\ selected_models' = sel
        /\ db_query' = FALSE
        /\ calls' = <<>>
        /\ backtest_df' = <<>>
        /\ forecast_original_df' = <<>>
        /\ forecast_normalized_df' = <<>>
        /\ forecasts_original' = <<>>
        /\ forecasts_normalized' = <<>>
        /\ UNCHANGED session
        /\ IF NoModelSelected(sel)
           THEN /\ outcome' = "EmptyModelList"
                /\ pc' = "end"
                /\ filtered_data' = <<>>
                /\ backtest_data' = <<>>
                /\ model_dict' = <<>>
           ELSE /\ outcome' = "none"
                /\ pc' = "bt_value"
                /\ filtered_data' = FilterVariable(session_state.data, v)
                /\ backtest_data' = Backtest(FilterVariable(session_state.data, v), h)
                /\ model_dict' = generate_model_dict(sel)

TargetAt(p) == IF p \in {"bt_value", "fc_value"} THEN "value" ELSE "value01"
ActualsAt(p) == IF p \in {"bt_value", "bt_value01"} THEN backtest_data ELSE filtered_data

\* one get_api_forecasts call of combine_backtest_forecast, and what follows
\* it up to the next call
CallForecast ==
    /\ pc \in {"bt_value", "fc_value", "bt_value01", "fc_value01"}
    /\ \E kind \in Kinds :
        LET target == TargetAt(pc)
            actuals == ActualsAt(pc)
            got == get_api_forecasts(kind, actuals, fcast_horizon, target, selected_models)
        IN
        /\ calls' = Append(calls, [actuals |-> actuals, fcast_horizon |-> fcast_horizon,
                                   target_var |-> target, models_list |-> selected_models,
                                   raised |-> got.raised, result |-> got.result])
        /\ UNCHANGED <<db_query, variable, fcast_horizon, selected_models, filtered_data,
                       backtest_data, model_dict, forecasts_original, forecasts_normalized>>
        /\ IF got.raised # ""
           THEN /\ Halt(got.raised)
                /\ UNCHANGED <<backtest_df, forecast_original_df, forecast_normalized_df>>
           ELSE /\ outcome' = outcome
                /\ UNCHANGED session
                /\ CASE pc = "bt_value" ->
                          /\ backtest_df' = got.result
                          /\ pc' = "fc_value"
                          /\ UNCHANGED <<forecast_original_df, forecast_normalized_df>>
                     [] pc = "fc_value" ->
                          /\ forecast_original_df' = concat(backtest_df, got.result)
                          /\ backtest_df' = <<>>
                          /\ pc' = "bt_value01"
                          /\ UNCHANGED forecast_normalized_df
                     [] pc = "bt_value01" ->
                          /\ backtest_df' = got.result
                          /\ pc' = "fc_value01"
                          /\ UNCHANGED <<forecast_original_df, forecast_normalized_df>>
                     [] OTHER ->
                          /\ forecast_normalized_df' = concat(backtest_df, got.result)
                          /\ backtest_df' = <<>>
                          /\ pc' = "post"
                          /\ UNCHANGED forecast_original_df

\* lines 86-133: rescale, split, zoom window, charts
PostProcess ==
    /\ pc = "post"
    /\ forecast_normalized_df' = Rescale(forecast_normalized_df, filtered_data)
    /\ forecasts_original' = split_forecasts_by_model(forecast_original_df, model_dict)
    /\ forecasts_normalized' =
          split_forecasts_by_model(Rescale(forecast_normalized_df, filtered_data), model_dict)
    /\ UNCHANGED <<db_query, variable, fcast_horizon, selected_models, filtered_data,
                   backtest_data, model_dict, backtest_df, forecast_original_df, calls>>
    /\ IF ZoomRaises(filtered_data)
       THEN Halt("IndexError")
       ELSE /\ pc' = "end"
            /\ outcome' = "rendered"
            /\ UNCHANGED session

\* the run is over: what it showed stays on the page, its names are dropped
EndRun ==
    /\ pc = "end"
    /\ pc' = "idle"
    /\ NoRequest
    /\ UNCHANGED <<session, outcome, db_query>>

Next ==
    \/ NewSession
    \/ Rerun
    \/ LoadClick
    \/ GenerateClick
    \/ CallForecast
    \/ PostProcess
    \/ EndRun

Spec == Init /\ [][Next]_vars

----------------------------------------------------------------------------
(* Properties *)

\* a Generate Forecast run is under way, or over with its names still standing
GenerateRun == pc # "idle" /\ variable # ""

\* the first / second invocation of combine_backtest_forecast has returned
CombineOriginalDone == GenerateRun /\ Len(calls) >= 2 /\ calls[2].raised = ""
CombineNormalizedDone == GenerateRun /\ Len(calls) >= 4 /\ calls[4].raised = ""

\* lines 91-92 have run
SplitDone == pc = "end" /\ outcome \in {"rendered", "IndexError"}

\* df is first followed by second, row for row
IsConcatOf(df, first, second) ==
    /\ Len(df) = Len(first) + Len(second)
    /\ \A i \in DOMAIN first : df[i] = first[i] /\ df[i].model_id = first[i].model_id
    /\ \A j \in DOMAIN second :
          df[Len(first) + j] = second[j] /\ df[Len(first) + j].model_id = second[j].model_id

\* the answer to call c holds exactly fcast_horizon rows for each model asked for
\* and no other row
WellBehaved(c) ==
    /\ c.raised = ""
    /\ Len(c.result) = c.fcast_horizon * Len(c.models_list)
    /\ \A m \in 1..Len(c.models_list) :
          Cardinality({i \in DOMAIN c.result : c.result[i].model_id = m}) = c.fcast_horizon

\* C1: a Generate Forecast run started with an empty model selection is over
\* at once with the empty-model-list error shown, and has issued no
\* forecast-service call.
C1_EmptySelectionAborts ==
    (GenerateRun /\ selected_models = <<>>) =>
        (pc = "end" /\ outcome = "EmptyModelList" /\ calls = <<>>)

C1_Witness ==
    GenerateRun /\ selected_models = <<>> /\ outcome = "EmptyModelList"

\* C2: one invocation of combine_backtest_forecast issues exactly two calls,
\* the first with the backtest series as history and the second with the full
\* series, and returns the rows of the first followed by the rows of the second,
\* each row (and its model_id) as the call returned it; the two input series
\* are what they were when the handler built them.
C2_CombineTwoCallsInOrder ==
    /\ GenerateRun => Len(calls) <= 4
    /\ (pc = "bt_value01") => (Len(calls) = 2 /\ CombineOriginalDone)
    /\ (pc = "post") => (Len(calls) = 4 /\ CombineNormalizedDone)
    /\ CombineOriginalDone =>
          /\ calls[1].actuals = backtest_data /\ calls[1].target_var = "value"
          /\ calls[2].actuals = filtered_data /\ calls[2].target_var = "value"
          /\ IsConcatOf(forecast_original_df, calls[1].result, calls[2].result)
    /\ (CombineNormalizedDone /\ pc = "post") =>
          /\ calls[3].actuals = backtest_data /\ calls[3].target_var = "value01"
          /\ calls[4].actuals = filtered_data /\ calls[4].target_var = "value01"
          /\ IsConcatOf(forecast_normalized_df, calls[3].result, calls[4].result)
    /\ (GenerateRun /\ selected_models # <<>>) =>
          /\ filtered_data = FilterVariable(session_state.data, variable)
          /\ backtest_data = SubSeq(filtered_data, 1, Len(backtest_data))

C2_Witness ==
    /\ pc = "post"
    /\ calls[1].result # calls[2].result
    /\ backtest_data # <<>>
    /\ \E i, j \in DOMAIN forecast_normalized_df :
          forecast_normalized_df[i].model_id # forecast_normalized_df[j].model_id

\* C3: with 0 < H < L and both calls answering exactly H rows per model, the
\* combined table has exactly 2 * H * M rows, also when the two answers hold
\* rows of the same date and model_id.
C3_CombinedRowCount ==
    /\ (CombineOriginalDone /\ 0 < fcast_horizon /\ fcast_horizon < Len(filtered_data)
          /\ WellBehaved(calls[1]) /\ WellBehaved(calls[2])) =>
          Len(forecast_original_df) = 2 * fcast_horizon * Len(selected_models)
    /\ (CombineNormalizedDone /\ 0 < fcast_horizon /\ fcast_horizon < Len(filtered_data)
          /\ WellBehaved(calls[3]) /\ WellBehaved(calls[4])) =>
          Len(forecast_normalized_df) = 2 * fcast_horizon * Len(selected_models)

C3_Witness ==
    /\ CombineOriginalDone
    /\ fcast_horizon < Len(filtered_data)
    /\ Len(selected_models) >= 2
    /\ WellBehaved(calls[1]) /\ WellBehaved(calls[2])
    /\ \A i \in DOMAIN calls[1].result : \E j \in DOMAIN calls[2].result :
          /\ calls[1].result[i].date = calls[2].result[j].date
          /\ calls[1].result[i].model_id = calls[2].result[j].model_id

\* C4 (as claimed): when the horizon is at least the length of the history,
\* the run issues no forecast call and ends with InsufficientHistory.
C4_InsufficientHistoryRejected ==
    (GenerateRun /\ selected_models # <<>> /\ fcast_horizon >= Len(filtered_data)) =>
        /\ calls = <<>>
        /\ pc = "end" => outcome = "InsufficientHistory"

\* the rows of df whose model_id is id
RowsOfModel(df, id) == {k \in DOMAIN df : df[k].model_id = id}

KeysCover(forecasts, df) ==
    /\ DOMAIN forecasts = {model_dict[id] : id \in DOMAIN model_dict}
    /\ DOMAIN forecasts = {selected_models[i] : i \in DOMAIN selected_models}
    /\ Cardinality(DOMAIN forecasts) = Cardinality(DOMAIN model_dict)
    /\ \A id \in DOMAIN model_dict :
          RowsOfModel(df, id) = {} => forecasts[model_dict[id]] = <<>>

\* C5: the keys of a split are exactly the model names of the assignment, one
\* per entry; a model with no row in the table has an empty subtable.
C5_SplitKeyCoverage ==
    SplitDone =>
        /\ KeysCover(forecasts_original, forecast_original_df)
        /\ KeysCover(forecasts_normalized, forecast_normalized_df)

C5_Witness ==
    /\ SplitDone
    /\ Len(selected_models) >= 2
    /\ \E id \in DOMAIN model_dict :
          /\ RowsOfModel(forecast_original_df, id) = {}
          /\ forecasts_original[model_dict[id]] = <<>>
    /\ \E id \in DOMAIN model_dict : RowsOfModel(forecast_original_df, id) # {}

RECURSIVE SumLen(_, _)
SumLen(parts, keys) ==
    IF keys = {} THEN 0
    ELSE LET k == CHOOSE x \in keys : TRUE
         IN Len(parts[k]) + SumLen(parts, keys \ {k})

\* sub is seq with some rows left out: sub[i..] is matched within seq[j..]
RECURSIVE IsSubSeqFrom(_, _, _, _)
IsSubSeqFrom(sub, i, seq, j) ==
    IF i > Len(sub) THEN TRUE
    ELSE IF j > Len(seq) THEN FALSE
    ELSE IF sub[i] = seq[j] THEN IsSubSeqFrom(sub, i + 1, seq, j + 1)
    ELSE IsSubSeqFrom(sub, i, seq, j + 1)

\* the subtables partition the table: each row position of the table is held by
\* exactly one subtable, nothing else is held, and the table's order is kept
Reconstructs(parts, df) ==
    /\ SumLen(parts, DOMAIN parts) = Len(df)
    /\ \A k \in DOMAIN df : \E name \in DOMAIN parts :
          \E i \in DOMAIN parts[name] : parts[name][i] = df[k]
    /\ \A name \in DOMAIN parts : IsSubSeqFrom(parts[name], 1, df, 1)
    /\ \A name, other \in DOMAIN parts :
          name # other =>
              \A i \in DOMAIN parts[name], j \in DOMAIN parts[other] :
                  parts[name][i].model_id # parts[other][j].model_id

\* C6 (as claimed): for every forecast table, the subtables of the split
\* reconstruct the table.
C6_SplitReconstructsAnyTable ==
    SplitDone =>
        /\ Reconstructs(forecasts_original, forecast_original_df)
        /\ Reconstructs(forecasts_normalized, forecast_normalized_df)

AllIdsAssigned(df) == \A k \in DOMAIN df : df[k].model_id \in DOMAIN model_dict

\* C6 (amended): for every forecast table whose rows all carry an identifier
\* of the assignment, the subtables of the split reconstruct the table, each
\* keeping the table's row order.
C6_SplitReconstructsAssigned ==
    SplitDone =>
        /\ AllIdsAssigned(forecast_original_df) =>
              Reconstructs(forecasts_original, forecast_original_df)
        /\ AllIdsAssigned(forecast_normalized_df) =>
              Reconstructs(forecasts_normalized, forecast_normalized_df)

C6_Witness ==
    /\ SplitDone
    /\ Len(selected_models) >= 2
    /\ AllIdsAssigned(forecast_original_df)
    /\ Reconstructs(forecasts_original, forecast_original_df)
    /\ \A name \in DOMAIN forecasts_original : forecasts_original[name] # <<>>

GenerateErrors == {"ForecastServiceError", "KeyError", "IndexError", "EmptyModelList"}

\* C7: no step of a Generate Forecast run, failing or not, changes the loaded
\* dataset or the data_loaded flag, and a run that has failed takes no further
\* step of the handler.
C7_GenerateKeepsDataset ==
    [][/\ pc' # "idle" =>
            /\ session_state'.data_loaded = session_state.data_loaded
            /\ session_state'.data = session_state.data
            /\ DOMAIN session_state' = DOMAIN session_state
       /\ outcome' \in GenerateErrors => pc' \in {"end", "idle"}
       /\ pc = "end" => (pc' = "idle" /\ session_state' = session_state)]_vars

C7_Witness ==
    /\ pc = "end"
    /\ outcome \in {"ForecastServiceError", "KeyError", "IndexError"}
    /\ Len(calls) >= 1
    /\ session_state.data_loaded
    /\ session_state.data = Table

\* C8: once data_loaded is set no run issues the database query again; whenever
\* data_loaded is set the dataset is in session state; a load that fails leaves
\* data_loaded false.
C8_LoadedOnce ==
    [][/\ session_state.data_loaded => ~db_query'
       /\ session_state'.data_loaded => "data" \in DOMAIN session_state'
       /\ outcome' = "ConnectionError" => ~session_state'.data_loaded
       /\ (db_query' /\ outcome' # "ConnectionError") =>
              (session_state'.data_loaded /\ session_state'.data = Table)]_vars

C8_Witness ==
    /\ session_state.data_loaded
    /\ "data" \in DOMAIN session_state
    /\ ~db_query
    /\ pc = "end"
    /\ outcome = "rendered"

\* the end-to-end scenario: 100 observations, horizon 12, two models, every
\* call answered with 12 rows per model, the run rendered
Scenario ==
    /\ pc = "end"
    /\ outcome = "rendered"
    /\ Len(filtered_data) = 100
    /\ fcast_horizon = 12
    /\ Len(selected_models) = 2
    /\ \A i \in DOMAIN calls : WellBehaved(calls[i])

HistoryLengths == [i \in DOMAIN calls |-> Len(calls[i].actuals)]

\* C9 (as claimed): the scenario issues two remote calls, with 88 and 100
\* history points; the concatenated result has 48 rows and splits into two
\* subtables of 24 rows.
C9_ScenarioTwoCalls ==
    Scenario =>
        /\ HistoryLengths = <<88, 100>>
        /\ Len(forecast_original_df) = 48
        /\ Cardinality(DOMAIN forecasts_original) = 2
        /\ \A name \in DOMAIN forecasts_original : Len(forecasts_original[name]) = 24

\* C9 (amended): the scenario issues four remote calls, two for each target
\* column (value, then value01), each pair with 88 and then 100 history points;
\* each of the two concatenated results has 48 rows and splits into two keyed
\* subtables of 24 rows.
C9_ScenarioFourCalls ==
    Scenario =>
        /\ HistoryLengths = <<88, 100, 88, 100>>
        /\ [i \in DOMAIN calls |-> calls[i].target_var]
              = <<"value", "value", "value01", "value01">>
        /\ Len(forecast_original_df) = 48
        /\ Len(forecast_normalized_df) = 48
        /\ DOMAIN forecasts_original = {selected_models[1], selected_models[2]}
        /\ DOMAIN forecasts_normalized = {selected_models[1], selected_models[2]}
        /\ Cardinality(DOMAIN forecasts_original) = 2
        /\ \A name \in DOMAIN forecasts_original : Len(forecasts_original[name]) = 24
        /\ \A name \in DOMAIN forecasts_normalized : Len(forecasts_normalized[name]) = 24

C9_Witness ==
    /\ Scenario
    /\ variable = "pop"
    /\ selected_models = <<"xgboost", "arima">>
    /\ Len(calls) = 4

\* C10 (as claimed): whenever the run is at the combine step, the backtest
\* series is the full series without exactly its last fcast_horizon points, a
\* strict prefix of it.
C10_BacktestMissesHorizon ==
    (pc \in {"bt_value", "fc_value", "bt_value01", "fc_value01"}) =>
        /\ Len(backtest_data) = Len(filtered_data) - fcast_horizon
        /\ Len(backtest_data) < Len(filtered_data)
        /\ \A i \in DOMAIN backtest_data : backtest_data[i] = filtered_data[i]

====
